---- MODULE Spec2Model ----
(***************************************************************************)
(* Model of the two scripts of the repository:                             *)
(*   lammps_files/compute_gyration.py    (get_avg_rg_from_file, main)      *)
(*   lammps_files/tetracyclic_analysis.py (AlphaGraphAnalysis, main)       *)
(*                                                                         *)
(* Numbers are IEEE-754 binary64 values, as numpy's float64 are: every     *)
(* sum, product and quotient below is rounded to 53 significant bits,      *)
(* round-to-nearest-even.  A value is kept as an odd integer mantissa      *)
(* (a sequence of 15-bit limbs, least significant first) and a binary      *)
(* exponent, so that equal values are equal records.                       *)
(*                                                                         *)
(* Spec runs both scripts, compute_gyration.py on every command line (two  *)
(* input files, or a wrong number of them); SpecFile makes one call of     *)
(* get_avg_rg_from_file on every input file.                               *)
(***************************************************************************)
EXTENDS Integers, Sequences, FiniteSets

(***************************************************************************)
(* Natural numbers of any size: sequences of limbs, least significant      *)
(* first, no leading (last) zero limb; <<>> is zero.                       *)
(***************************************************************************)
Base == 2^15

Max(x, y) == IF x >= y THEN x ELSE y
Min(x, y) == IF x <= y THEN x ELSE y

RECURSIVE BnNorm(_)
BnNorm(a) ==
    IF a = <<>> THEN <<>>
    ELSE IF a[Len(a)] = 0 THEN BnNorm(SubSeq(a, 1, Len(a) - 1))
    ELSE a

RECURSIVE BnFromInt(_)
BnFromInt(n) ==
    IF n = 0 THEN <<>> ELSE <<n % Base>> \o BnFromInt(n \div Base)

RECURSIVE BnAddC(_, _, _)
BnAddC(a, b, c) ==
    IF a = <<>> /\ b = <<>> THEN (IF c = 0 THEN <<>> ELSE <<c>>)
    ELSE LET x == IF a = <<>> THEN 0 ELSE Head(a)
             y == IF b = <<>> THEN 0 ELSE Head(b)
             s == x + y + c
         IN  <<s % Base>> \o BnAddC(IF a = <<>> THEN <<>> ELSE Tail(a),
                                    IF b = <<>> THEN <<>> ELSE Tail(b),
                                    s \div Base)

BnAdd(a, b) == BnAddC(a, b, 0)

\* a - b for a >= b
RECURSIVE BnSubC(_, _, _)
BnSubC(a, b, c) ==
    IF a = <<>> THEN <<>>
    ELSE LET y == IF b = <<>> THEN 0 ELSE Head(b)
             d == Head(a) - y - c
         IN  <<IF d < 0 THEN d + Base ELSE d>>
             \o BnSubC(Tail(a), IF b = <<>> THEN <<>> ELSE Tail(b),
                       IF d < 0 THEN 1 ELSE 0)

BnSub(a, b) == BnNorm(BnSubC(a, b, 0))

\* -1, 0, 1 as a < b, a = b, a > b
RECURSIVE BnCmpTop(_, _, _)
BnCmpTop(a, b, i) ==
    IF i = 0 THEN 0
    ELSE IF a[i] < b[i] THEN -1
    ELSE IF a[i] > b[i] THEN 1
    ELSE BnCmpTop(a, b, i - 1)

BnCmp(a, b) ==
    IF Len(a) < Len(b) THEN -1
    ELSE IF Len(a) > Len(b) THEN 1
    ELSE BnCmpTop(a, b, Len(a))

\* a * k + c for 0 <= k, c < Base
RECURSIVE BnMulSmallC(_, _, _)
BnMulSmallC(a, k, c) ==
    IF a = <<>> THEN (IF c = 0 THEN <<>> ELSE <<c>>)
    ELSE LET p == Head(a) * k + c
         IN  <<p % Base>> \o BnMulSmallC(Tail(a), k, p \div Base)

BnMulSmall(a, k) == BnNorm(BnMulSmallC(a, k, 0))

\* r * Base
BnLimbUp(r) == IF r = <<>> THEN <<>> ELSE <<0>> \o r

\* a * b, limb by limb of b
RECURSIVE BnMulLimbs(_, _)
BnMulLimbs(a, b) ==
    IF a = <<>> \/ b = <<>> THEN <<>>
    ELSE BnAdd(BnMulSmall(a, Head(b)), BnLimbUp(BnMulLimbs(a, Tail(b))))

\* a * b, limb by limb of the shorter
BnMul(a, b) == IF Len(a) < Len(b) THEN BnMulLimbs(b, a) ELSE BnMulLimbs(a, b)

\* a quotient with its last limbs stripped of zeros
NormQ(d) == [q |-> BnNorm(d.q), r |-> d.r]

\* quotient and remainder of a by 0 < k < Base, from limb i of a downwards;
\* r is the remainder and q the quotient limbs so far
RECURSIVE BnDivSmallR(_, _, _, _, _)
BnDivSmallR(a, k, i, r, q) ==
    IF i = 0 THEN [q |-> q, r |-> r]
    ELSE BnDivSmallR(a, k, i - 1, (r * Base + a[i]) % k,
                     <<(r * Base + a[i]) \div k>> \o q)

BnDivSmall(a, k) == NormQ(BnDivSmallR(a, k, Len(a), 0, <<>>))

\* the values f[1], ..., f[n] as a tuple: each is computed once, when the
\* tuple is made
Array(f) == SubSeq(f, 1, Len(f))

\* limb j of a * 2^s, 0 <= s < 15: the low bits of a[j] and the high bits of
\* a[j - 1]
BnShlLimb(a, j, s) ==
    (IF 1 <= j /\ j <= Len(a) THEN (a[j] * 2^s) % Base ELSE 0)
    + (IF 2 <= j /\ j <= Len(a) + 1 THEN (a[j - 1] * 2^s) \div Base ELSE 0)

\* a * 2^n
BnShl(a, n) ==
    IF a = <<>> THEN <<>>
    ELSE BnNorm(Array([i \in 1..(Len(a) + n \div 15 + 1) |->
                          BnShlLimb(a, i - n \div 15, n % 15)]))

\* limb j of floor(a / 2^s), 0 <= s < 15: the high bits of a[j] and the low
\* bits of a[j + 1]
BnShrLimb(a, j, s) ==
    a[j] \div 2^s
    + (IF j < Len(a) THEN (a[j + 1] % 2^s) * 2^(15 - s) ELSE 0)

\* floor(a / 2^n)
BnShr(a, n) ==
    IF n \div 15 >= Len(a) THEN <<>>
    ELSE BnNorm(Array([i \in 1..(Len(a) - n \div 15) |->
                          BnShrLimb(a, i + n \div 15, n % 15)]))

RECURSIVE IntBitLen(_)
IntBitLen(n) == IF n = 0 THEN 0 ELSE 1 + IntBitLen(n \div 2)

BnBitLen(a) ==
    IF a = <<>> THEN 0 ELSE 15 * (Len(a) - 1) + IntBitLen(a[Len(a)])

BnIsOdd(a) == a # <<>> /\ Head(a) % 2 = 1

RECURSIVE IntTrailingZeros(_)
IntTrailingZeros(n) == IF n % 2 = 1 THEN 0 ELSE 1 + IntTrailingZeros(n \div 2)

\* number of trailing zero bits of a > 0
RECURSIVE BnTrailingZeros(_)
BnTrailingZeros(a) ==
    IF Head(a) = 0 THEN 15 + BnTrailingZeros(Tail(a))
    ELSE IntTrailingZeros(Head(a))

\* the largest d in lo..hi with b * d <= r, given b * lo <= r
RECURSIVE BnDigit(_, _, _, _)
BnDigit(r, b, lo, hi) ==
    IF lo = hi THEN lo
    ELSE IF BnCmp(BnMulSmall(b, (lo + hi + 1) \div 2), r) <= 0
         THEN BnDigit(r, b, (lo + hi + 1) \div 2, hi)
         ELSE BnDigit(r, b, lo, (lo + hi + 1) \div 2 - 1)

\* long division, one quotient limb per step, from limb i of a downwards;
\* r < b is the remainder so far, r2 = r * Base + a[i], d the quotient limb
RECURSIVE BnDivLong(_, _, _, _)
BnPushDigit(rest, d) == [q |-> rest.q \o <<d>>, r |-> rest.r]
BnDivDigit(a, b, i, r2, d) ==
    BnPushDigit(BnDivLong(a, b, i - 1, BnSub(r2, BnMulSmall(b, d))), d)
BnDivStep(a, b, i, r2) ==
    IF BnCmp(r2, b) < 0 THEN BnPushDigit(BnDivLong(a, b, i - 1, r2), 0)
    ELSE BnDivDigit(a, b, i, r2, BnDigit(r2, b, 1, Base - 1))
BnDivLong(a, b, i, r) ==
    IF i = 0 THEN [q |-> <<>>, r |-> r]
    ELSE BnDivStep(a, b, i, BnNorm(<<a[i]>> \o r))

BnRemainder(d) == [q |-> d.q, r |-> BnFromInt(d.r)]

\* quotient and remainder (a natural number) of a by b > 0; the long
\* division starts below the Len(b) - 1 leading limbs of a, which are less
\* than b
BnDivMod(a, b) ==
    IF Len(b) = 1 THEN BnRemainder(BnDivSmall(a, b[1]))
    ELSE IF Len(a) < Len(b) THEN [q |-> <<>>, r |-> a]
    ELSE NormQ(BnDivLong(a, b, Len(a) - Len(b) + 1,
                         SubSeq(a, Len(a) - Len(b) + 2, Len(a))))

\* q = floor(M / 2^d), or q + 1: M / 2^d rounded to the nearest natural
\* number, ties to even
BnRoundUp(q, c) ==
    IF c > 0 \/ (c = 0 /\ BnIsOdd(q)) THEN BnAdd(q, <<1>>) ELSE q
BnRoundFrom(M, d, q) ==
    BnRoundUp(q, BnCmp(BnSub(M, BnShl(q, d)), BnShl(<<1>>, d - 1)))
BnRoundShr(M, d) == BnRoundFrom(M, d, BnShr(M, d))

(***************************************************************************)
(* binary64 values (numpy float64).  Only non-negative values occur: the   *)
(* inputs are radii of gyration and timesteps.                             *)
(*   [k |-> "fin", m, e]  the value m * 2^e, m odd (or m = <<>>: zero)     *)
(*   [k |-> "inf"]        +inf          [k |-> "nan"]  not a number        *)
(***************************************************************************)
FZero == [k |-> "fin", m |-> <<>>, e |-> 0]
FInf  == [k |-> "inf", m |-> <<>>, e |-> 0]
FNaN  == [k |-> "nan", m |-> <<>>, e |-> 0]

\* M * 2^E with M of at most 53 bits, made canonical (odd mantissa, or
\* zero); above the largest binary64 it is +inf
FCanon(M, E) ==
    IF M = <<>> THEN FZero
    ELSE IF E + BnBitLen(M) - 1 > 1023 THEN FInf
    ELSE [k |-> "fin", m |-> BnShr(M, BnTrailingZeros(M)),
          e |-> E + BnTrailingZeros(M)]

\* the binary64 nearest to the natural number M times 2^E, ties to even:
\* d low bits are dropped to keep 53 significant bits, and no bit below
\* 2^-1074
FRoundAt(M, E, d) ==
    IF d <= 0 THEN FCanon(M, E) ELSE FCanon(BnRoundShr(M, d), E + d)
FRound(M, E) ==
    IF M = <<>> THEN FZero
    ELSE FRoundAt(M, E, Max(BnBitLen(M) - 53, (0 - 1074) - E))

\* an integer 0 <= n < 2^31 is a binary64
FFromInt(n) == FCanon(BnFromInt(n), 0)

\* the position above the leading bit of a finite x > 0
FTop(x) == x.e + BnBitLen(x.m)

\* x + y
FAddAt(x, y, e0) ==
    FRound(BnAdd(BnShl(x.m, x.e - e0), BnShl(y.m, y.e - e0)), e0)
FAddFinite(x, y, gap) ==
    \* one operand below half a unit in the last place of the other
    IF gap > 60 THEN x
    ELSE IF gap < 0 - 60 THEN y
    ELSE FAddAt(x, y, Min(x.e, y.e))
FAdd(x, y) ==
    IF x.k = "nan" \/ y.k = "nan" THEN FNaN
    ELSE IF x.k = "inf" \/ y.k = "inf" THEN FInf
    ELSE IF x.m = <<>> THEN y
    ELSE IF y.m = <<>> THEN x
    ELSE FAddFinite(x, y, FTop(x) - FTop(y))

\* x * y
FMul(x, y) ==
    IF x.k = "nan" \/ y.k = "nan" THEN FNaN
    ELSE IF x.k = "inf" \/ y.k = "inf"
         THEN (IF x = FZero \/ y = FZero THEN FNaN ELSE FInf)
    ELSE FRound(BnMul(x.m, y.m), x.e + y.e)

\* x / y as numpy divides float64 scalars: a zero divisor raises nothing
\* (a RuntimeWarning is printed) and gives inf, or nan for 0 / 0.
\* The quotient of the mantissas is taken to at least 56 bits (s more bits
\* of the dividend) and one more bit says whether a remainder was left.
FDivSticky(d) ==
    BnAddC(BnMulSmall(d.q, 2), <<>>, IF d.r = <<>> THEN 0 ELSE 1)
FDivAt(x, y, s) ==
    FRound(FDivSticky(BnDivMod(BnShl(x.m, s), y.m)), x.e - y.e - s - 1)
FDiv(x, y) ==
    IF x.k = "nan" \/ y.k = "nan" THEN FNaN
    ELSE IF x.k = "inf" THEN (IF y.k = "inf" THEN FNaN ELSE FInf)
    ELSE IF y.k = "inf" THEN FZero
    ELSE IF y.m = <<>> THEN (IF x.m = <<>> THEN FNaN ELSE FInf)
    ELSE IF x.m = <<>> THEN FZero
    ELSE FDivAt(x, y, Max(0, 56 + BnBitLen(y.m) - BnBitLen(x.m)))

(***************************************************************************)
(* Input files.  A file is missing, or a sequence of lines; a line is a    *)
(* '#' comment or a row of whitespace-separated tokens; a token is a       *)
(* decimal numeral digits * 10^-scale ("0.1" is 1, 1) or text that is no   *)
(* number.                                                                 *)
(***************************************************************************)
\* the natural number written with the decimal digits ds, four digits at
\* a time
RECURSIVE DecimalInt(_)
DecimalInt(ds) ==
    IF ds = <<>> THEN 0
    ELSE 10 * DecimalInt(SubSeq(ds, 1, Len(ds) - 1)) + ds[Len(ds)]

RECURSIVE BnFromDecimal(_)
BnFromDecimal(ds) ==
    IF Len(ds) <= 4 THEN BnFromInt(DecimalInt(ds))
    ELSE BnNorm(BnMulSmallC(BnFromDecimal(SubSeq(ds, 1, Len(ds) - 4)), 10000,
                            DecimalInt(SubSeq(ds, Len(ds) - 3, Len(ds)))))

\* quotient of a by 5^s, by divisions by at most 5^6; r is <<>> when no
\* division so far (inexact) or here left a remainder
RECURSIVE BnDivPow5(_, _, _)
BnDivPow5Step(d, s, inexact) == BnDivPow5(d.q, s, inexact \/ d.r # 0)
BnDivPow5(a, s, inexact) ==
    IF s = 0 THEN [q |-> a, r |-> IF inexact THEN <<1>> ELSE <<>>]
    ELSE BnDivPow5Step(BnDivSmall(a, 5^Min(s, 6)), s - Min(s, 6), inexact)

\* the numeral of the integer d < 2^31 with s decimals
Dec(d, s)      == [t |-> "num", digits |-> BnFromInt(d), scale |-> s]
\* the numeral of the digits ds, the last s of them decimals
Numeral(ds, s) == [t |-> "num", digits |-> BnFromDecimal(ds), scale |-> s]
BadToken       == [t |-> "text", digits |-> <<>>, scale |-> 0]
Comment     == [kind |-> "comment", tokens |-> <<>>]
DataLine(t) == [kind |-> "data", tokens |-> t]
Missing     == [exists |-> FALSE, lines |-> <<>>]
File(ls)    == [exists |-> TRUE, lines |-> ls]

\* float(token): the binary64 nearest to the numeral.  digits / 10^scale is
\* (digits * 2^k / 5^scale) * 2^-(k + scale); the quotient is taken to at
\* least 56 bits and one more bit says whether a remainder was left.
ParseAt(digits, scale, k) ==
    FRound(FDivSticky(BnDivPow5(BnShl(digits, k), scale, FALSE)),
           0 - k - scale - 1)
ParseFloat(tok) ==
    IF tok.digits = <<>> THEN FZero
    ELSE ParseAt(tok.digits, tok.scale,
                 Max(0, 56 + 3 * tok.scale - BnBitLen(tok.digits)))

\* the rows np.loadtxt(filename, comments='#') converts: comment lines and
\* lines without a token are skipped
RECURSIVE DataRows(_)
DataRows(lines) ==
    IF lines = <<>> THEN <<>>
    ELSE IF Head(lines).kind = "comment" \/ Head(lines).tokens = <<>>
         THEN DataRows(Tail(lines))
         ELSE <<Head(lines).tokens>> \o DataRows(Tail(lines))

\* np.loadtxt(..., ndmin): ValueError for a token that is no number or for
\* rows of different lengths; otherwise the array of the rows.  With ndmin=0
\* it is squeezed: no row gives shape (0,), one row of one column a 0-d
\* array, one row or one column a 1-d array.  With ndmin=2 it keeps its two
\* dimensions.
np_loadtxt(lines, ndmin) ==
    LET rows  == DataRows(lines)
        nrows == Len(rows)
        ncols == IF nrows = 0 THEN 0 ELSE Len(rows[1])
    IN  IF \E i \in 1..nrows : \E j \in 1..Len(rows[i]) : rows[i][j].t # "num"
        THEN [err |-> "ValueError", shape |-> <<>>, a |-> <<>>]
        ELSE IF \E i \in 1..nrows : Len(rows[i]) # ncols
        THEN [err |-> "ValueError", shape |-> <<>>, a |-> <<>>]
        ELSE [err   |-> "",
              shape |-> IF ndmin = 2 THEN <<nrows, ncols>>
                        ELSE IF nrows = 0 THEN <<0>>
                        ELSE IF nrows = 1 /\ ncols = 1 THEN <<>>
                        ELSE IF nrows = 1 THEN <<ncols>>
                        ELSE IF ncols = 1 THEN <<nrows>>
                        ELSE <<nrows, ncols>>,
              a     |-> Array([i \in 1..nrows |->
                              Array([j \in 1..ncols |->
                                        ParseFloat(rows[i][j])])])]

\* line 26: np.loadtxt(filename, comments='#'), ndmin left at 0
loadtxt(lines) == np_loadtxt(lines, 0)

(***************************************************************************)
(* numpy reductions over a 1-d float64 array                               *)
(***************************************************************************)
\* res += a[i], ..., a[j] in order
RECURSIVE AddRange(_, _, _, _)
AddRange(res, a, i, j) ==
    IF i > j THEN res ELSE AddRange(FAdd(res, a[i]), a, i + 1, j)

\* the eight running sums of the unrolled loop: r[k] += a[i + k] for each
\* block of eight from index i (1-based) up to last
RECURSIVE AddBlocks(_, _, _, _)
AddBlocks(r, a, i, last) ==
    IF i + 7 > last THEN r
    ELSE AddBlocks([k \in 1..8 |-> FAdd(r[k], a[i + k - 1])], a, i + 8, last)

\* ((r[1] + r[2]) + (r[3] + r[4])) + ((r[5] + r[6]) + (r[7] + r[8])) for
\* i = 1, j = 8
RECURSIVE AddPairs(_, _, _)
AddPairs(r, i, j) ==
    IF i = j THEN r[i]
    ELSE FAdd(AddPairs(r, i, (i + j) \div 2), AddPairs(r, (i + j) \div 2 + 1, j))

\* numpy's pairwise summation of a[lo..hi] (n = hi - lo + 1 elements):
\* a plain loop below 8 elements; up to 128, eight running sums over the
\* blocks of eight, added in pairs, then the rest one by one; above, the
\* two halves
RECURSIVE pairwise_sum(_, _, _)
pairwise_sum(a, lo, hi) ==
    LET n    == hi - lo + 1
        full == n - (n % 8)
        n2   == (n \div 2) - ((n \div 2) % 8)
    IN  IF n < 8 THEN AddRange(FZero, a, lo, hi)
        ELSE IF n <= 128
        THEN AddRange(AddPairs(AddBlocks([k \in 1..8 |-> a[lo + k - 1]], a,
                                         lo + 8, lo + full - 1), 1, 8),
                      a, lo + full, hi)
        ELSE FAdd(pairwise_sum(a, lo, lo + n2 - 1),
                  pairwise_sum(a, lo + n2, hi))

\* np.add.reduce(a): the identity 0 plus the pairwise sum
np_sum(a) == FAdd(FZero, pairwise_sum(a, 1, Len(a)))

\* np.mean(a): the sum divided by the count; nan for an empty array
np_mean(a) == FDiv(np_sum(a), FFromInt(Len(a)))

\* a ** 2, element by element
np_square(a) == [i \in 1..Len(a) |-> FMul(a[i], a[i])]

(***************************************************************************)
(* compute_gyration.get_avg_rg_from_file                                   *)
(***************************************************************************)
None == [tag |-> "None"]

\* lines 37-44: which arm of the if / elif the length n takes
window_branch(n) ==
    IF (n * 3) \div 4 = 0 /\ n > 1 THEN "forced to 1"
    ELSE IF n <= 1 THEN "not enough data"
    ELSE "plain"

\* a faulty variant of line 37: the first quarter is dropped, not three
equilibrated_start_quarter(n) == n \div 4

\* lines 37-41: the first index of the equilibrated part of n values
equilibrated_start(n) ==
    IF window_branch(n) = "forced to 1" THEN 1 ELSE (n * 3) \div 4

\* a faulty variant of line 54, the one its comment warns of: the square
\* of the mean, <Rg>^2, for the mean square <Rg^2>
analyse_square_of_mean(timesteps, rg_values) ==
    LET start           == equilibrated_start(Len(rg_values))
        equilibrated_rg == SubSeq(rg_values, start + 1, Len(rg_values))
    IN  [tag                |-> "tuple",
         avg_rg_squared     |-> np_square(<<np_mean(equilibrated_rg)>>)[1],
         avg_rg             |-> np_mean(equilibrated_rg),
         timesteps          |-> timesteps,
         rg_values          |-> rg_values,
         equilibrated_start |-> start,
         equilibrated_rg    |-> equilibrated_rg]

\* lines 46-64, for the values rg_values and timesteps of a loaded file
analyse(timesteps, rg_values) ==
    LET start           == equilibrated_start(Len(rg_values))
        equilibrated_rg == SubSeq(rg_values, start + 1, Len(rg_values))
    IN  [tag                |-> "tuple",
         avg_rg_squared     |-> np_mean(np_square(equilibrated_rg)),
         avg_rg             |-> np_mean(equilibrated_rg),
         timesteps          |-> timesteps,
         rg_values          |-> rg_values,
         equilibrated_start |-> start,
         equilibrated_rg    |-> equilibrated_rg]

\* What a call returns (ret: None or the 6-tuple), which of its messages it
\* prints, and the arm of lines 40-44 it took ("" when it never got there).
\* IndexError (data.shape[1] of a 0-d or 1-d array) and ValueError (loadtxt)
\* are caught by the except clause of line 66.
Failed(msg, arm) == [ret |-> None, printed |-> msg, branch |-> arm]

\* lines 29-64, for the value data of np.loadtxt
after_loadtxt(data) ==
    IF data.err # "" THEN Failed("error occurred", "")
    ELSE IF Len(data.shape) = 0 THEN Failed("no valid data", "")
    ELSE IF Len(data.shape) < 2 THEN Failed("error occurred", "")
    ELSE IF data.shape[2] < 2 THEN Failed("no valid data", "")
    ELSE IF window_branch(data.shape[1]) = "not enough data"
    THEN Failed("not enough data", "not enough data")
    ELSE [ret     |-> analyse(Array([i \in 1..data.shape[1] |-> data.a[i][1]]),
                              Array([i \in 1..data.shape[1] |-> data.a[i][2]])),
          printed |-> "analysis",
          branch  |-> window_branch(data.shape[1])]

get_avg_rg_from_file(file) ==
    IF ~file.exists THEN Failed("not found", "")
    ELSE after_loadtxt(loadtxt(file.lines))

(***************************************************************************)
(* compute_gyration.main                                                   *)
(***************************************************************************)
\* f"{x:.6f}": the numeral with six decimals nearest to x (ties to even),
\* kept as its count of millionths; "inf" and "nan" for the non-finite
format_6f(x) ==
    IF x.k # "fin" THEN [txt |-> x.k, millionths |-> <<>>]
    ELSE LET V == BnMul(x.m, BnFromInt(1000000))
         IN  [txt        |-> "number",
              millionths |-> IF x.e >= 0 THEN BnShl(V, x.e)
                             ELSE BnRoundShr(V, 0 - x.e)]

\* faulty variants of line 96: the operands swapped; a zero divisor
\* answered with 0; a product for the quotient
ratio_inverted(rg2_alpha, rg2_tree)   == FDiv(rg2_tree, rg2_alpha)
ratio_zero_guard(rg2_alpha, rg2_tree) ==
    IF rg2_tree = FZero THEN FZero ELSE FDiv(rg2_alpha, rg2_tree)
ratio_times(rg2_alpha, rg2_tree)      == FMul(rg2_alpha, rg2_tree)

\* line 96
ratio(rg2_alpha, rg2_tree) == FDiv(rg2_alpha, rg2_tree)

\* lines 150-158: the three numbers of g_factor_results.txt
results_file(rg2_alpha, rg2_tree, custom) ==
    [tag          |-> "file",
     rg2_alpha    |-> format_6f(rg2_alpha),
     rg2_tree     |-> format_6f(rg2_tree),
     custom_ratio |-> format_6f(custom)]

NoFile == [tag |-> "no file"]

(***************************************************************************)
(* tetracyclic_analysis.AlphaGraphAnalysis                                 *)
(***************************************************************************)
Tup(a, b)     == [op |-> "tuple", v |-> <<a, b>>, args |-> <<>>]
\* f(args) where f is the tuple display t: what "t" followed by "(" is
Call(t, args) == [op |-> "call", v |-> t.v, args |-> args]

\* lines 29-33, element by element.  No comma follows (3, 6), so it and the
\* next line's (5, 2) are one expression, the call (3, 6)(5, 2).
edges_display ==
    << Tup(1, 2), Tup(1, 4), Tup(1, 5),
       Tup(3, 2), Tup(3, 4), Call(Tup(3, 6), <<5, 2>>),
       Tup(5, 4), Tup(5, 6) >>

NoGraph == [nodes |-> {}, edges |-> {}]

\* nx.Graph with add_nodes_from and add_edges_from: a simple undirected graph
Graph(nodes, edge_list) ==
    [nodes |-> nodes \cup UNION {{edge_list[i][1], edge_list[i][2]} :
                                    i \in 1..Len(edge_list)},
     edges |-> {{edge_list[i][1], edge_list[i][2]} : i \in 1..Len(edge_list)}]

\* lines 23-36: evaluating the list display calls a tuple, which raises
\* TypeError ('tuple' object is not callable) before any graph is filled
create_alpha_graph ==
    IF \E i \in 1..Len(edges_display) : edges_display[i].op = "call"
    THEN [raised |-> "TypeError", G |-> NoGraph]
    ELSE [raised |-> "",
          G |-> Graph(1..6, [i \in 1..Len(edges_display) |-> edges_display[i].v])]

\* The graph quantities of calculate_theoretical_g_factor, in exact rational
\* arithmetic (the code computes them in float64 through scipy's pinv).
Degree(G, v) == Cardinality({ed \in G.edges : v \in ed})

\* entry (i, j) of the Laplacian D - A
Lap(G, i, j) ==
    IF i = j THEN Degree(G, i) ELSE IF {i, j} \in G.edges THEN 0 - 1 ELSE 0

RECURSIVE SortedSeq(_)
SortedSeq(S) ==
    IF S = {} THEN <<>>
    ELSE LET lo == CHOOSE x \in S : \A y \in S : x <= y
         IN  <<lo>> \o SortedSeq(S \ {lo})

RemoveAt(q, j) == SubSeq(q, 1, j - 1) \o SubSeq(q, j + 1, Len(q))

\* determinant of the rows and columns of D - A named by the two sequences
RECURSIVE Det(_, _, _)
RECURSIVE DetSum(_, _, _, _)
Det(G, rows, cols) == IF rows = <<>> THEN 1 ELSE DetSum(G, rows, cols, 1)
DetSum(G, rows, cols, j) ==
    IF j > Len(cols) THEN 0
    ELSE (IF j % 2 = 1 THEN 1 ELSE 0 - 1) * Lap(G, rows[1], cols[j])
             * Det(G, Tail(rows), RemoveAt(cols, j))
         + DetSum(G, rows, cols, j + 1)

RECURSIVE DegreeProduct(_, _)
DegreeProduct(G, S) ==
    IF S = {} THEN 1
    ELSE LET v == CHOOSE x \in S : TRUE
         IN  Degree(G, v) * DegreeProduct(G, S \ {v})

\* the sum, over the vertex sets S of size k, of the principal minor of
\* I - D^(-1/2) A D^(-1/2) on S, times the product of all degrees
RECURSIVE MinorSum(_, _)
MinorSum(G, Ss) ==
    IF Ss = {} THEN 0
    ELSE LET S == CHOOSE x \in Ss : TRUE
         IN  Det(G, SortedSeq(S), SortedSeq(S)) * DegreeProduct(G, G.nodes \ S)
             + MinorSum(G, Ss \ {S})

Minors(G, k) == MinorSum(G, {S \in SUBSET G.nodes : Cardinality(S) = k})

\* lines 51-57: trace of the pseudoinverse of the normalized Laplacian of a
\* connected graph, the sum of the reciprocals of its nonzero eigenvalues:
\* the ratio of the two last coefficients of its characteristic polynomial
trace_L_plus(G) ==
    [num |-> Minors(G, Cardinality(G.nodes) - 2),
     den |-> Minors(G, Cardinality(G.nodes) - 1)]

RECURSIVE GCD(_, _)
GCD(a, b) == IF b = 0 THEN a ELSE GCD(b, a % b)

Fraction(n, d) == [num |-> n \div GCD(n, d), den |-> d \div GCD(n, d)]

\* lines 44-60: (3 / e^2) * (trace + cycle_rank / 3 - 1 / 6) as a fraction
calculate_theoretical_g_factor(G) ==
    LET v          == Cardinality(G.nodes)
        e          == Cardinality(G.edges)
        cycle_rank == e - v + 1
        t          == trace_L_plus(G)
    IN  Fraction(6 * t.num + (2 * cycle_rank - 1) * t.den, 2 * e * e * t.den)
(***************************************************************************)
(* Bounds and inputs                                                       *)
(***************************************************************************)
\* longest series given to a single call of get_avg_rg_from_file
MaxN == 9
\* longest free series given to main (the scenario series have 8 records)
MaxLen == 2
\* length of one long series, whose equilibrated part has more than eight
\* values (np.mean then sums in blocks of eight)
LongLen == 36
\* longest sequence of the finer values ending a series
MaxWindow == 3

\* a gyration file as LAMMPS writes it: a '#' header line, then one
\* "timestep value" line per record, timesteps 0, 1, 2, ...
Series(vals) ==
    File(<<Comment>>
         \o [i \in 1..Len(vals) |-> DataLine(<<Dec(i - 1, 0), vals[i]>>)])

SeqsOf(S, lo, hi) == UNION {[1..n -> S] : n \in lo..hi}

\* "0.1" and "7"
PlainTokens == {Dec(1, 1), Dec(7, 0)}
\* and "1.0000000000000002", "1.0000000000000004", "1.3437500000000058":
\* two values one unit in the last place apart, and one for which three
\* equal values give a mean square several units in the last place below
\* the square of their mean
FileTokens ==
    PlainTokens
    \cup { Numeral(<<1, 0, 0, 0, 0, 0, 0, 0, 0, 0, 0, 0, 0, 0, 0, 0, 2>>, 16),
           Numeral(<<1, 0, 0, 0, 0, 0, 0, 0, 0, 0, 0, 0, 0, 0, 0, 0, 4>>, 16),
           Numeral(<<1, 3, 4, 3, 7, 5, 0, 0, 0, 0, 0, 0, 0, 0, 0, 5, 8>>, 16) }
\* "0", "1" and "7"
MainTokens == {Dec(0, 0), Dec(1, 0), Dec(7, 0)}

\* files that are no two-column series of at least two records
OddFiles ==
    { Missing,
      File(<<>>),
      File(<<DataLine(<<Dec(7, 0)>>)>>),
      File(<<Comment, DataLine(<<Dec(0, 0)>>), DataLine(<<Dec(1, 0)>>)>>),
      File(<<Comment, DataLine(<<Dec(0, 0), Dec(7, 0)>>),
             DataLine(<<Dec(1, 0), BadToken>>)>>),
      File(<<Comment, DataLine(<<Dec(0, 0), Dec(7, 0)>>),
             DataLine(<<Dec(1, 0)>>)>>) }

ThreeColumns ==
    File(<<Comment, DataLine(<<Dec(0, 0), Dec(7, 0), Dec(1, 0)>>),
           DataLine(<<Dec(1, 0), Dec(1, 1), Dec(1, 0)>>)>>)

\* "7", "0.1", "7", "0.1", ...
LongSeries ==
    Series([i \in 1..LongLen |-> IF i % 2 = 1 THEN Dec(7, 0) ELSE Dec(1, 1)])

\* the series of 4 * Len(w) - 3 records (2 for one value) that ends with
\* the values w after records of "7": line 46 keeps a quarter of the
\* records, rounded up
EndingWith(w) ==
    Series([i \in 1..(Max(2, 4 * Len(w) - 3) - Len(w)) |-> Dec(7, 0)] \o w)

FileInputs ==
    OddFiles \cup {ThreeColumns, LongSeries}
    \cup {Series(v) : v \in SeqsOf(PlainTokens, 0, MaxN)}
    \cup {EndingWith(w) : w \in SeqsOf(FileTokens, 1, MaxWindow)}

\* the series of the end-to-end scenario
AlphaScenario ==
    Series(<<Dec(10, 0), Dec(10, 0), Dec(10, 0), Dec(10, 0),
             Dec(20, 0), Dec(20, 0), Dec(20, 0), Dec(20, 0)>>)
TreeScenario ==
    Series(<<Dec(5, 0), Dec(5, 0), Dec(5, 0), Dec(5, 0),
             Dec(10, 0), Dec(10, 0), Dec(10, 0), Dec(10, 0)>>)

MainInputs ==
    OddFiles \cup {Series(<<>>), Series(<<Dec(7, 0)>>), AlphaScenario, TreeScenario}
    \cup {Series(v) : v \in SeqsOf(MainTokens, 2, MaxLen)}

\* the files of a command line with the wrong number of arguments
ExtraArgs == {Missing, AlphaScenario, TreeScenario}

\* sys.argv[1:]: two files, or none, one or three
ArgvInputs ==
    [1..2 -> MainInputs] \cup {<<>>}
    \cup [1..1 -> ExtraArgs] \cup [1..3 -> ExtraArgs]

(***************************************************************************)
(* State                                                                   *)
(***************************************************************************)
VARIABLES
    argv,          \* sys.argv[1:] of compute_gyration.py: the files named
    filename,      \* argument of a direct call of get_avg_rg_from_file
    result,        \* what that call returned
    file_alpha,    \* sys.argv[1], once line 169 has bound it
    file_tree,     \* sys.argv[2], once line 170 has bound it
    pc,            \* position of compute_gyration.py
    alpha_data,
    tree_data,
    custom_ratio,
    plot_png,      \* g_factor_analysis_results.png: the two equilibration lines
    results_txt,   \* g_factor_results.txt
    stdout,        \* the messages printed, in order
    branch,        \* the arm of lines 40-44 each call took, in call order
    th_pc,         \* position of tetracyclic_analysis.main
    G,             \* analyzer.G
    graph_png,     \* alpha_graph_structure.png written
    g_factor       \* theoretical_g

vars == <<argv, filename, result, file_alpha, file_tree, pc, alpha_data, tree_data,
          custom_ratio, plot_png, results_txt, stdout, branch, th_pc, G,
          graph_png, g_factor>>

NotCalled   == [tag |-> "not called"]
\* file_alpha and file_tree before lines 169-170 bind them
NoArgument  == [exists |-> FALSE, lines |-> <<>>, bound |-> FALSE]
\* custom_ratio before line 96 binds it
Unbound     == [k |-> "unbound", m |-> <<>>, e |-> 0]
NotComputed == [num |-> 0, den |-> 0]

Blank ==
    /\ result = NotCalled
    /\ alpha_data = NotCalled
    /\ tree_data = NotCalled
    /\ custom_ratio = Unbound
    /\ plot_png = NoFile
    /\ results_txt = NoFile
    /\ stdout = <<>>
    /\ branch = <<>>
    /\ G = NoGraph
    /\ graph_png = FALSE
    /\ g_factor = NotComputed

\* both scripts are started: python3 compute_gyration.py with any number of
\* file arguments, and python3 tetracyclic_analysis.py
Init ==
    /\ Blank
    /\ argv \in ArgvInputs
    /\ filename = Missing
    /\ file_alpha = NoArgument
    /\ file_tree = NoArgument
    /\ pc = "script"
    /\ th_pc = "start"

\* one call get_avg_rg_from_file(filename) is about to be made
InitFile ==
    /\ Blank
    /\ argv = <<>>
    /\ filename \in FileInputs
    /\ file_alpha = NoArgument
    /\ file_tree = NoArgument
    /\ pc = "not run"
    /\ th_pc = "not run"

(***************************************************************************)
(* Actions                                                                 *)
(***************************************************************************)
call_get_avg_rg_from_file ==
    /\ result = NotCalled
    /\ \E r \in {get_avg_rg_from_file(filename)} :
           /\ result' = r.ret
           /\ stdout' = Append(stdout, r.printed)
           /\ branch' = Append(branch, r.branch)
    /\ UNCHANGED <<argv, filename, file_alpha, file_tree, pc, alpha_data, tree_data,
                   custom_ratio, plot_png, results_txt, th_pc, G, graph_png,
                   g_factor>>

\* lines 162-171: the usage error and sys.exit(1) unless exactly two
\* arguments follow the script name; otherwise main(file_alpha, file_tree)
\* is entered
script_args ==
    /\ pc = "script"
    /\ IF Len(argv) + 1 # 3
       THEN /\ pc' = "exit 1"
            /\ stdout' = Append(stdout, "invalid arguments")
            /\ UNCHANGED <<file_alpha, file_tree>>
       ELSE /\ file_alpha' = argv[1]
            /\ file_tree' = argv[2]
            /\ pc' = "start"
            /\ stdout' = stdout
    /\ UNCHANGED <<argv, filename, result, alpha_data, tree_data, custom_ratio,
                   plot_png, results_txt, branch, th_pc, G, graph_png,
                   g_factor>>

\* lines 173-175: the banner printed once main has returned
script_complete ==
    /\ pc = "done"
    /\ stdout' = Append(stdout, "analysis complete")
    /\ pc' = "complete"
    /\ UNCHANGED <<argv, filename, result, file_alpha, file_tree, alpha_data,
                   tree_data, custom_ratio, plot_png, results_txt, branch,
                   th_pc, G, graph_png, g_factor>>

\* lines 74-81: the opening banner, then the Alpha call
main_load_alpha ==
    /\ pc = "start"
    /\ \E r \in {get_avg_rg_from_file(file_alpha)} :
           /\ alpha_data' = r.ret
           /\ stdout' = stdout \o <<"banner", r.printed>>
           /\ branch' = Append(branch, r.branch)
    /\ pc' = "alpha loaded"
    /\ UNCHANGED <<argv, filename, result, file_alpha, file_tree, tree_data,
                   custom_ratio, plot_png, results_txt, th_pc, G, graph_png,
                   g_factor>>

\* line 82
main_load_tree ==
    /\ pc = "alpha loaded"
    /\ \E r \in {get_avg_rg_from_file(file_tree)} :
           /\ tree_data' = r.ret
           /\ stdout' = Append(stdout, r.printed)
           /\ branch' = Append(branch, r.branch)
    /\ pc' = "tree loaded"
    /\ UNCHANGED <<argv, filename, result, file_alpha, file_tree, alpha_data,
                   custom_ratio, plot_png, results_txt, th_pc, G, graph_png,
                   g_factor>>

\* a faulty variant of line 84: only alpha_data is tested
main_check_alpha_only ==
    /\ pc = "tree loaded"
    /\ IF alpha_data = None
       THEN /\ pc' = "exit 1"
            /\ stdout' = Append(stdout, "failed to load")
       ELSE /\ pc' = "unpacked"
            /\ stdout' = stdout
    /\ UNCHANGED <<argv, filename, result, file_alpha, file_tree, alpha_data,
                   tree_data, custom_ratio, plot_png, results_txt, branch,
                   th_pc, G, graph_png, g_factor>>

\* lines 84-92: sys.exit(1) when a file failed to load
main_check ==
    /\ pc = "tree loaded"
    /\ IF alpha_data = None \/ tree_data = None
       THEN /\ pc' = "exit 1"
            /\ stdout' = Append(stdout, "failed to load")
       ELSE /\ pc' = "unpacked"
            /\ stdout' = stdout
    /\ UNCHANGED <<argv, filename, result, file_alpha, file_tree, alpha_data,
                   tree_data, custom_ratio, plot_png, results_txt, branch,
                   th_pc, G, graph_png, g_factor>>

\* lines 96-103
main_ratio ==
    /\ pc = "unpacked"
    /\ custom_ratio' = ratio(alpha_data.avg_rg_squared, tree_data.avg_rg_squared)
    /\ stdout' = Append(stdout, "custom ratio")
    /\ pc' = "ratio"
    /\ UNCHANGED <<argv, filename, result, file_alpha, file_tree, alpha_data,
                   tree_data, plot_png, results_txt, branch, th_pc, G,
                   graph_png, g_factor>>

\* lines 106-147: the figure; ts[start] is where each equilibration line is
main_plot ==
    /\ pc = "ratio"
    /\ plot_png' =
         [tag   |-> "file",
          alpha |-> alpha_data.timesteps[alpha_data.equilibrated_start + 1],
          tree  |-> tree_data.timesteps[tree_data.equilibrated_start + 1]]
    /\ stdout' = Append(stdout, "plot saved")
    /\ pc' = "plotted"
    /\ UNCHANGED <<argv, filename, result, file_alpha, file_tree, alpha_data,
                   tree_data, custom_ratio, results_txt, branch, th_pc, G,
                   graph_png, g_factor>>

\* lines 150-160
main_save ==
    /\ pc = "plotted"
    /\ results_txt' = results_file(alpha_data.avg_rg_squared,
                                   tree_data.avg_rg_squared, custom_ratio)
    /\ stdout' = Append(stdout, "results saved")
    /\ pc' = "done"
    /\ UNCHANGED <<argv, filename, result, file_alpha, file_tree, alpha_data,
                   tree_data, custom_ratio, plot_png, branch, th_pc, G,
                   graph_png, g_factor>>

\* tetracyclic_analysis.main, lines 84-95: the constructor's exception is
\* not caught, so neither visualize_graph nor the calculation runs
theory_main ==
    /\ th_pc = "start"
    /\ LET made == create_alpha_graph
       IN  IF made.raised # ""
           THEN /\ th_pc' = made.raised
                /\ UNCHANGED <<G, graph_png, g_factor>>
           ELSE /\ G' = made.G
                /\ graph_png' = TRUE
                /\ g_factor' = calculate_theoretical_g_factor(made.G)
                /\ th_pc' = "done"
    /\ UNCHANGED <<argv, filename, result, file_alpha, file_tree, pc, alpha_data,
                   tree_data, custom_ratio, plot_png, results_txt, stdout,
                   branch>>

Next ==
    \/ script_args
    \/ main_load_alpha
    \/ main_load_tree
    \/ main_check
    \/ main_ratio
    \/ main_plot
    \/ main_save
    \/ script_complete
    \/ theory_main

Spec == Init /\ [][Next]_vars

NextFile == call_get_avg_rg_from_file

SpecFile == InitFile /\ [][NextFile]_vars

(***************************************************************************)
(* Properties.  Helpers first: what a file holds, and exact comparisons of *)
(* finite binary64 values (as natural numbers over a common exponent).     *)
(***************************************************************************)
\* the number of data lines of a file
RecordCount(file) == Len(DataRows(file.lines))

\* a file that is there and holds fewer than two data lines
FewRecords(file) == file.exists /\ RecordCount(file) < 2

\* a file of at least two rows of the same number (two or more) of numerals
IsSeries(file) ==
    /\ file.exists
    /\ RecordCount(file) >= 2
    /\ loadtxt(file.lines).err = ""
    /\ Len(DataRows(file.lines)[1]) >= 2

IsConstant(w) == \A i \in 1..Len(w) : w[i] = w[1]

\* x / 2^e0 for e0 <= x.e
FInt(x, e0) == BnShl(x.m, x.e - e0)

BnAbsDiff(a, b) == IF BnCmp(a, b) >= 0 THEN BnSub(a, b) ELSE BnSub(b, a)

\* a < b
FLess(a, b) == BnCmp(FInt(a, Min(a.e, b.e)), FInt(b, Min(a.e, b.e))) < 0

\* |a - b| <= b / 2^k
FWithin(a, b, k) ==
    BnCmp(BnShl(BnAbsDiff(FInt(a, Min(a.e, b.e)), FInt(b, Min(a.e, b.e))), k),
          FInt(b, Min(a.e, b.e))) <= 0

RECURSIVE MinExp(_)
MinExp(w) == IF Len(w) = 1 THEN w[1].e ELSE Min(w[1].e, MinExp(Tail(w)))

RECURSIVE BnSum(_, _)
BnSum(w, e0) ==
    IF w = <<>> THEN <<>> ELSE BnAdd(FInt(w[1], e0), BnSum(Tail(w), e0))

RECURSIVE BnSumSq(_, _)
BnSumSq(w, e0) ==
    IF w = <<>> THEN <<>>
    ELSE BnAdd(BnMul(FInt(w[1], e0), FInt(w[1], e0)), BnSumSq(Tail(w), e0))

\* n^2 times the population variance of w, over 2^(2 e0), exactly:
\* n * sum(x^2) - sum(x)^2
VarianceN2(w, e0) ==
    BnSub(BnMul(BnFromInt(Len(w)), BnSumSq(w, e0)),
          BnMul(BnSum(w, e0), BnSum(w, e0)))

\* x * n^2 / 2^E, a natural number for E <= x.e
FScaled(x, n, E) == BnMul(FInt(x, E), BnFromInt(n * n))

\* the exact n^2 * (population variance of w) / 2^E, for E <= 2 * MinExp(w)
VarianceScaled(w, E) ==
    BnShl(VarianceN2(w, MinExp(w)), 2 * MinExp(w) - E)

\* the common exponent under ms, sq and the squares of the values of w
VarianceExp(ms, sq, w) == Min(Min(ms.e, sq.e), 2 * MinExp(w))

\* |(ms - sq) - variance of w| <= Len(w) * 2^-50 * ms
VarianceWithinAt(ms, sq, w, E) ==
    BnCmp(BnShl(BnAbsDiff(FScaled(ms, Len(w), E),
                          BnAdd(FScaled(sq, Len(w), E), VarianceScaled(w, E))),
                50),
          BnMulSmall(FScaled(ms, Len(w), E), Len(w))) <= 0
VarianceWithin(ms, sq, w) ==
    VarianceWithinAt(ms, sq, w, VarianceExp(ms, sq, w))

\* ms - sq = variance of w, exactly
VarianceExactAt(ms, sq, w, E) ==
    FScaled(ms, Len(w), E)
        = BnAdd(FScaled(sq, Len(w), E), VarianceScaled(w, E))
VarianceExact(ms, sq, w) ==
    VarianceExactAt(ms, sq, w, VarianceExp(ms, sq, w))

\* variance of w > Len(w) * 2^-50 * ms
VarianceAboveAt(ms, w, E) ==
    BnCmp(BnShl(VarianceScaled(w, E), 50),
          BnMulSmall(FScaled(ms, Len(w), E), Len(w))) > 0
VarianceAbove(ms, sq, w) == VarianceAboveAt(ms, w, VarianceExp(ms, sq, w))

\* the positions of compute_gyration.py from the ratio step on
RatioReached == pc \in {"ratio", "plotted", "done", "complete"}

\* main has written its results file
Saved == pc \in {"done", "complete"}

\* the call of line 81, of line 82, the test of line 84 has been made
AlphaCalled == alpha_data # NotCalled
TreeCalled  == tree_data # NotCalled
Checked     == TreeCalled /\ pc # "tree loaded"

\* what main has printed after its banner: first the message of the Alpha
\* call, then that of the Tree call
MainMessage(i) == stdout[1 + i]

(***************************************************************************)
(* C1 (SpecFile): for a series of N >= 2 records the call succeeds and the *)
(* equilibrated part is rg_values[start:] with start = (3 * N) \div 4,     *)
(* 0 <= start < N, so it is not empty; N = 2, 3, 4, 5 give 1, 2, 3, 3.     *)
(***************************************************************************)
C1_Window ==
    (result # NotCalled /\ IsSeries(filename)) =>
        /\ result.tag = "tuple"
        /\ Len(result.rg_values) = RecordCount(filename)
        /\ result.equilibrated_start = (3 * RecordCount(filename)) \div 4
        /\ 0 <= result.equilibrated_start
        /\ result.equilibrated_start < RecordCount(filename)
        /\ result.equilibrated_rg =
             [i \in 1..(RecordCount(filename) - result.equilibrated_start) |->
                 result.rg_values[result.equilibrated_start + i]]
        /\ result.equilibrated_rg # <<>>
        /\ RecordCount(filename) = 2 => result.equilibrated_start = 1
        /\ RecordCount(filename) = 3 => result.equilibrated_start = 2
        /\ RecordCount(filename) = 4 => result.equilibrated_start = 3
        /\ RecordCount(filename) = 5 => result.equilibrated_start = 3

C1_Witness ==
    /\ result # NotCalled
    /\ IsSeries(filename)
    /\ RecordCount(filename) = 5
    /\ result.equilibrated_start = 3
    /\ Len(result.equilibrated_rg) = 2

(***************************************************************************)
(* C2 (SpecFile), as amended: avg_rg_squared is the binary64 mean of the   *)
(* binary64 squares of the window (never the square of the mean).  When it *)
(* is finite (no sum overflowed): for one or two equal values it equals    *)
(* avg_rg^2 exactly; for n values avg_rg_squared - avg_rg^2 is the         *)
(* population variance up to rounding, within n * 2^-50 * avg_rg_squared;  *)
(* and avg_rg_squared > avg_rg^2 whenever the variance is above that       *)
(* rounding.  Below it avg_rg_squared may equal avg_rg^2 or be less.       *)
(***************************************************************************)
C2_MeanSquare ==
    result.tag = "tuple" =>
        /\ result.avg_rg_squared = np_mean(np_square(result.equilibrated_rg))
        /\ result.avg_rg_squared.k = "fin" =>
              /\ (IsConstant(result.equilibrated_rg)
                    /\ Len(result.equilibrated_rg) <= 2) =>
                      result.avg_rg_squared
                          = FMul(result.avg_rg, result.avg_rg)
              /\ VarianceWithin(result.avg_rg_squared,
                                FMul(result.avg_rg, result.avg_rg),
                                result.equilibrated_rg)
              /\ VarianceAbove(result.avg_rg_squared,
                               FMul(result.avg_rg, result.avg_rg),
                               result.equilibrated_rg) =>
                      FLess(FMul(result.avg_rg, result.avg_rg),
                            result.avg_rg_squared)

\* two values that are not equal whose mean square is less than the square
\* of their mean (1.0000000000000002 and 1.0000000000000004)
C2_Witness ==
    /\ result.tag = "tuple"
    /\ Len(result.equilibrated_rg) = 2
    /\ ~IsConstant(result.equilibrated_rg)
    /\ FLess(result.avg_rg_squared, FMul(result.avg_rg, result.avg_rg))

\* C2 as stated: equal values give avg_rg_squared = avg_rg^2 exactly, and
\* values that are not all equal give avg_rg_squared # avg_rg^2, the
\* difference being the population variance
C2_Exact ==
    result.tag = "tuple" =>
        /\ IsConstant(result.equilibrated_rg) =>
              result.avg_rg_squared = FMul(result.avg_rg, result.avg_rg)
        /\ ~IsConstant(result.equilibrated_rg) =>
              /\ result.avg_rg_squared # FMul(result.avg_rg, result.avg_rg)
              /\ result.avg_rg_squared.k = "fin" =>
                    VarianceExact(result.avg_rg_squared,
                                  FMul(result.avg_rg, result.avg_rg),
                                  result.equilibrated_rg)

(***************************************************************************)
(* C3 (Spec): main on the two scenario series.  Both calls take start 6,   *)
(* the equilibrated parts are [20, 20] and [10, 10], the mean squares 400  *)
(* and 100, the ratio is exactly 4, and "4.000000" is what the results     *)
(* file holds.                                                             *)
(***************************************************************************)
C3_Scenario ==
    argv = <<AlphaScenario, TreeScenario>> =>
        /\ pc # "exit 1"
        /\ AlphaCalled =>
             /\ alpha_data.tag = "tuple"
             /\ alpha_data.timesteps = [i \in 1..8 |-> FFromInt(i - 1)]
             /\ alpha_data.equilibrated_start = 6
             /\ alpha_data.equilibrated_rg = <<FFromInt(20), FFromInt(20)>>
             /\ alpha_data.avg_rg_squared = FFromInt(400)
        /\ TreeCalled =>
             /\ tree_data.tag = "tuple"
             /\ tree_data.equilibrated_start = 6
             /\ tree_data.equilibrated_rg = <<FFromInt(10), FFromInt(10)>>
             /\ tree_data.avg_rg_squared = FFromInt(100)
        /\ RatioReached => custom_ratio = FFromInt(4)
        /\ Saved =>
             results_txt.custom_ratio =
                 [txt |-> "number", millionths |-> BnFromInt(4000000)]

C3_Witness ==
    /\ file_alpha = AlphaScenario
    /\ file_tree = TreeScenario
    /\ pc = "complete"
    /\ custom_ratio = FFromInt(4)
    /\ alpha_data.avg_rg_squared = FFromInt(400)
    /\ tree_data.avg_rg_squared = FFromInt(100)

(***************************************************************************)
(* C4 (Spec): main is past the test of line 84 with a ratio to compute     *)
(* only if both calls returned their tuple; if either returned None, main  *)
(* has exited with status 1 and has bound no ratio and written no file,    *)
(* whichever call failed and whatever the other returned.                  *)
(***************************************************************************)
C4_BothOrExit ==
    /\ (pc = "unpacked" \/ RatioReached) =>
          alpha_data.tag = "tuple" /\ tree_data.tag = "tuple"
    /\ (Checked /\ (alpha_data = None \/ tree_data = None)) =>
          /\ pc = "exit 1"
          /\ custom_ratio = Unbound
          /\ plot_png = NoFile
          /\ results_txt = NoFile
    /\ (pc = "exit 1" /\ Len(argv) = 2) =>
          (alpha_data = None \/ tree_data = None)
    /\ ~RatioReached => custom_ratio = Unbound /\ results_txt = NoFile

\* the Tree call failed after the Alpha call had succeeded
C4_Witness ==
    /\ pc = "exit 1"
    /\ alpha_data.tag = "tuple"
    /\ tree_data = None
    /\ custom_ratio = Unbound

(***************************************************************************)
(* C5 (Spec), as amended: when the Tree mean square is 0 the division of   *)
(* line 96 raises nothing.  The ratio is inf, or nan when the Alpha mean   *)
(* square is 0 too; main goes on, and the results file holds "inf" or      *)
(* "nan".                                                                  *)
(***************************************************************************)
C5_ZeroTree ==
    ((pc = "unpacked" \/ RatioReached)
        /\ tree_data.avg_rg_squared = FZero) =>
        /\ pc = "unpacked" => ENABLED main_ratio
        /\ RatioReached =>
             custom_ratio = IF alpha_data.avg_rg_squared = FZero
                            THEN FNaN ELSE FInf
        /\ Saved =>
             /\ results_txt.tag = "file"
             /\ results_txt.custom_ratio.txt = custom_ratio.k

C5_Witness ==
    /\ pc = "complete"
    /\ tree_data.avg_rg_squared = FZero
    /\ custom_ratio = FInf
    /\ results_txt.custom_ratio.txt = "inf"

\* C5 as stated: with a Tree mean square of 0 no ratio is produced and no
\* report is written
C5_DivisionByZeroError ==
    (Checked /\ alpha_data.tag = "tuple" /\ tree_data.tag = "tuple"
        /\ tree_data.avg_rg_squared = FZero) =>
        (custom_ratio = Unbound /\ results_txt = NoFile)

(***************************************************************************)
(* C6 (Spec), as stated: a file of fewer than two data lines fails with a  *)
(* kind of its own, EmptyDataError.                                        *)
(***************************************************************************)
\* the call gives no window and no statistics, and the failure is given its
\* own kind, either in what the caller receives (a value other than the one
\* for a missing file) or at least in the message (that of line 30, for a
\* file without valid data)
C6_ErrorKind ==
    (AlphaCalled /\ FewRecords(file_alpha)) =>
        /\ alpha_data.tag # "tuple"
        /\ branch[1] \notin {"plain", "forced to 1"}
        /\ \/ alpha_data # get_avg_rg_from_file(Missing).ret
           \/ MainMessage(1) = "no valid data"

(***************************************************************************)
(* C7 (Spec), as stated: once the constructor has run, analyzer.G has the  *)
(* vertices 1..6 and the 9 edges of K(3,3) between {1,3,5} and {2,4,6},    *)
(* and its cycle rank e - v + 1 is 4.                                      *)
(***************************************************************************)
K33 == Graph(1..6, <<<<1, 2>>, <<1, 4>>, <<1, 6>>, <<3, 2>>, <<3, 4>>,
                     <<3, 6>>, <<5, 2>>, <<5, 4>>, <<5, 6>>>>)

C7_DefaultGraph ==
    th_pc # "start" =>
        /\ G.nodes = 1..6
        /\ G.edges = {{a, b} : a \in {1, 3, 5}, b \in {2, 4, 6}}
        /\ G = K33
        /\ Cardinality(G.edges) = 9
        /\ Cardinality(G.edges) - Cardinality(G.nodes) + 1 = 4

(***************************************************************************)
(* C8 (Spec), as stated: tetracyclic_analysis.main completes, and the      *)
(* g-factor it computes for the default graph is                           *)
(* (3 / e^2) * (trace(L+) + c / 3 - 1 / 6).                                *)
(***************************************************************************)
C8_GFactor ==
    th_pc # "start" =>
        /\ th_pc = "done"
        /\ graph_png
        /\ g_factor = calculate_theoretical_g_factor(G)

(***************************************************************************)
(* C9 (Spec), as amended: for two finite nonzero mean squares A and B the  *)
(* binary64 product of the ratios A / B and B / A is within 2^-52 of 1; it *)
(* is not always 1.                                                        *)
(***************************************************************************)
C9_InverseLaw ==
    (RatioReached
        /\ alpha_data.avg_rg_squared \notin {FZero, FInf, FNaN}
        /\ tree_data.avg_rg_squared \notin {FZero, FInf, FNaN}) =>
        /\ custom_ratio = ratio(alpha_data.avg_rg_squared,
                                tree_data.avg_rg_squared)
        /\ FWithin(FMul(custom_ratio,
                        ratio(tree_data.avg_rg_squared,
                              alpha_data.avg_rg_squared)),
                   FFromInt(1), 52)

\* two mean squares whose ratios do not multiply to 1
C9_Witness ==
    /\ RatioReached
    /\ alpha_data.avg_rg_squared \notin {FZero, FInf, FNaN}
    /\ tree_data.avg_rg_squared \notin {FZero, FInf, FNaN}
    /\ FMul(custom_ratio, ratio(tree_data.avg_rg_squared,
                                alpha_data.avg_rg_squared)) # FFromInt(1)

\* C9 as stated: the product of the two ratios equals 1
C9_EqualsOne ==
    (RatioReached
        /\ alpha_data.avg_rg_squared \notin {FZero, FInf, FNaN}
        /\ tree_data.avg_rg_squared \notin {FZero, FInf, FNaN}) =>
        FMul(custom_ratio, ratio(tree_data.avg_rg_squared,
                                 alpha_data.avg_rg_squared)) = FFromInt(1)

(***************************************************************************)
(* C10 (SpecFile), as stated: no call takes the arm of line 41 (start      *)
(* forced to 1); a series of N >= 2 records takes the plain start          *)
(* (3 * N) \div 4 >= 1; and a file of 0 or 1 data lines takes the arm of   *)
(* lines 42-44, "Not enough data".                                         *)
(***************************************************************************)
C10_NotEnoughData ==
    result # NotCalled =>
        /\ branch[1] # "forced to 1"
        /\ IsSeries(filename) =>
             /\ branch[1] = "plain"
             /\ result.equilibrated_start = (3 * RecordCount(filename)) \div 4
             /\ result.equilibrated_start >= 1
        /\ FewRecords(filename) =>
             /\ result = None
             /\ branch[1] = "not enough data"
             /\ stdout[1] = "not enough data"

====
